---- MODULE Spec2Model ----
(***************************************************************************)
(* A model of the crawl engine of igoriokas/web-crawler: the ledger        *)
(* (src/src/state.py), the crawl loop, retry controller and link           *)
(* extractor (src/src/crawler_cli.py), the resume configuration            *)
(* (src/src/config.py) and the work lock (src/src/lockfile.py).            *)
(*                                                                         *)
(* Strings are sequences of tokens: "h" is the scheme, "s" and "t" are     *)
(* host characters, "a", "b", "x" are path characters, "html", "txt" and   *)
(* "pdf" are extensions, and ":", "/", ".", "#" are themselves.            *)
(*                                                                         *)
(* The lock file is taken to be WORKDIR/lock (config.py line 124), the     *)
(* path main() means to lock. Spec is the engine run from the command      *)
(* line, where stop and pause stay False; SpecResume is the engine killed  *)
(* and restarted on a site of fixed answers; SpecUI is the engine as the   *)
(* thread of crawler_ui.py, whose buttons set stop and pause, SpecUILive   *)
(* the same with the thread scheduled fairly; SpecLock is the work lock.   *)
(* The later specifications each follow one more part of the program:      *)
(* ledger write errors, error injection, the UI and the lock, the files    *)
(* written, termination, the path of the lock file, the HTTP attempts      *)
(* made, links of any form, and the error string of a failed URL.          *)
(***************************************************************************)
EXTENDS Integers, Sequences, FiniteSets, TLC

\* ------------------------------------------------------------------------
\* Bounds of the model
\* ------------------------------------------------------------------------
MaxRuns == 2
MaxClock == 1
MaxLockProcs == 3
MaxPurges == 1
MaxResumes == 2
MaxUiRuns == 1

None == "none"

\* ------------------------------------------------------------------------
\* String helpers (Python str methods used by the engine)
\* ------------------------------------------------------------------------
StartsWith(str, pre) ==
    /\ Len(pre) <= Len(str)
    /\ SubSeq(str, 1, Len(pre)) = pre

EndsWith(str, suf) ==
    /\ Len(suf) <= Len(str)
    /\ SubSeq(str, Len(str) - Len(suf) + 1, Len(str)) = suf

Contains(str, tok) == \E i \in 1..Len(str) : str[i] = tok

\* index of the first tok in str at or after position from, Len(str)+1 if none
RECURSIVE IndexFrom(_, _, _)
IndexFrom(str, tok, from) ==
    IF from > Len(str) THEN Len(str) + 1
    ELSE IF str[from] = tok THEN from
    ELSE IndexFrom(str, tok, from + 1)

\* index of the last tok among the first n of str, 0 if none
RECURSIVE LastIndexUpTo(_, _, _)
LastIndexUpTo(str, tok, n) ==
    IF n = 0 THEN 0
    ELSE IF str[n] = tok THEN n
    ELSE LastIndexUpTo(str, tok, n - 1)

\* index of the last tok in str, 0 if none
LastIndex(str, tok) == LastIndexUpTo(str, tok, Len(str))

\* str.split('#')[0]
SplitFragment(str) == SubSeq(str, 1, IndexFrom(str, "#", 1) - 1)

\* str.rstrip('/')
RECURSIVE RStripSlash(_)
RStripSlash(str) ==
    IF Len(str) > 0 /\ str[Len(str)] = "/"
    THEN RStripSlash(SubSeq(str, 1, Len(str) - 1))
    ELSE str

\* ------------------------------------------------------------------------
\* urllib.parse: urlparse and urljoin on the URL shapes of the model
\* ------------------------------------------------------------------------
HasScheme(url) == Len(url) >= 2 /\ url[2] = ":" /\ url[1] # "/"

UrlScheme(url) == IF HasScheme(url) THEN <<url[1]>> ELSE <<>>

\* the part after "scheme:"
AfterScheme(url) == IF HasScheme(url) THEN SubSeq(url, 3, Len(url)) ELSE url

HasNetloc(url) ==
    LET rest == AfterScheme(url)
    IN  Len(rest) >= 2 /\ rest[1] = "/" /\ rest[2] = "/"

\* end of the authority: the first "/" or "#" after the leading "//"
NetlocEnd(rest) ==
    LET sl == IndexFrom(rest, "/", 3)
        fr == IndexFrom(rest, "#", 3)
    IN  IF sl <= fr THEN sl ELSE fr

UrlNetloc(url) ==
    LET rest == AfterScheme(url)
    IN  IF HasNetloc(url) THEN SubSeq(rest, 3, NetlocEnd(rest) - 1) ELSE <<>>

\* path with the fragment removed
UrlPath(url) ==
    LET rest == SplitFragment(AfterScheme(url))
    IN  IF HasNetloc(url)
        THEN SubSeq(rest, IndexFrom(rest, "/", 3), Len(rest))
        ELSE rest


\* urljoin(base, href) for a base with scheme and authority
UrlJoin(base, href) ==
    LET origin == UrlScheme(base) \o <<":", "/", "/">> \o UrlNetloc(base)
        bpath  == UrlPath(base)
        dir    == SubSeq(bpath, 1, LastIndex(bpath, "/"))
    IN  IF href = <<>> THEN base
        ELSE IF HasScheme(href) THEN href
        ELSE IF HasNetloc(href) THEN UrlScheme(base) \o <<":">> \o href
        ELSE IF href[1] = "/" THEN origin \o href
        ELSE IF href[1] = "#" THEN origin \o bpath \o href
        ELSE origin \o (IF dir = <<>> THEN <<"/">> ELSE dir) \o href

\* ------------------------------------------------------------------------
\* Command line and derived configuration (config.py)
\* ------------------------------------------------------------------------
\* -a values a user may type: below, at and above the ceiling of fetch_url
AttemptArgs == {1, 2, 3}

\* -d values a user may type
DepthArgs == {0, 1, 2}

\* start URLs a user may type: "h://s/" and "h://t"
CliUrls == { <<"h", ":", "/", "/", "s", "/">>, <<"h", ":", "/", "/", "t">> }

\* PROTOCOL, DOMAIN, PRODOMAIN derived from START_URL
Domain(startUrl) == UrlNetloc(startUrl)

ProDomain(startUrl) == UrlScheme(startUrl) \o <<":", "/", "/">> \o UrlNetloc(startUrl)

\* a resumed run that keeps the url and -d of its own command line
RestoreFromConfigNever == FALSE

RestoreFromConfig == TRUE

\* a resumed run that restores the url of config.json and keeps its own -d
EffectiveCfgKeepsDepthArg(file, url, d, a) ==
    [ START_URL    |-> IF file.exists THEN file.url ELSE url,
      MAX_DEPTH    |-> d,
      MAX_ATTEMPTS |-> a,
      arg_url      |-> url,
      arg_max_depth |-> d,
      arg_max_attempts |-> a ]

\* the configuration in memory after argparse_and_init: the command line,
\* with url and max_depth replaced by those of config.json when it exists;
\* arg_* are args.url, args.max_depth, args.max_attempts as typed
EffectiveCfg(file, url, d, a) ==
    [ START_URL    |-> IF file.exists /\ RestoreFromConfig THEN file.url ELSE url,
      MAX_DEPTH    |-> IF file.exists /\ RestoreFromConfig THEN file.max_depth ELSE d,
      MAX_ATTEMPTS |-> a,
      arg_url      |-> url,
      arg_max_depth |-> d,
      arg_max_attempts |-> a ]

NoConfigFile == [exists |-> FALSE, url |-> <<>>, max_depth |-> 0]

NoCfg == [START_URL |-> <<>>, MAX_DEPTH |-> 0, MAX_ATTEMPTS |-> 0, arg_url |-> <<>>,
          arg_max_depth |-> 0, arg_max_attempts |-> 0]

\* the ceiling fetch_url works with: its max_attempts parameter, which the
\* crawl loop does not pass
FetchMaxAttempts == 2

\* ------------------------------------------------------------------------
\* The site: what the server holds for a URL (fixed per URL)
\* ------------------------------------------------------------------------
TextHtml == "text/html"
TextPlain == "text/plain"

\* code: how fetch_url classifies the response: "ok", "retry" or "permanent";
\* retry_after: its Retry-After header, <<>> when it has none
NoPage == [code |-> None, retry_after |-> <<>>, type |-> None, hrefs |-> <<>>, text |-> <<>>]

\* the resource a URL names: an empty path is "/"
Resource(url) ==
    LET path == UrlPath(url)
    IN  IF path = <<>> THEN <<"/">> ELSE path

SitePage(url) ==
    LET host == UrlNetloc(url)
        res  == Resource(url)
    IN  IF host = <<"s">> /\ res = <<"/">> THEN
            [code |-> "ok", retry_after |-> <<>>, type |-> TextHtml,
             hrefs |-> << <<"/", "a", ".", "html">>,
                          <<"/">>,
                          <<"/", "/", "t", "/", "x">>,
                          <<"h", ":", "/", "/", "s", "/", "b">> >>,
             text |-> <<"w1", "w2", "w1">>]
        ELSE IF host = <<"s">> /\ res = <<"/", "a", ".", "html">> THEN
            [code |-> "ok", retry_after |-> <<>>, type |-> TextHtml,
             hrefs |-> << <<"/">>, <<"#", "x">>, <<"b", ".", "pdf">> >>,
             text |-> <<"w1">>]
        ELSE IF host = <<"s">> /\ res = <<"/", "b">> THEN
            [code |-> "ok", retry_after |-> <<>>, type |-> TextPlain, hrefs |-> <<>>, text |-> <<"w2", "w2">>]
        ELSE IF host = <<"t">> /\ res = <<"/">> THEN
            [code |-> "ok", retry_after |-> <<>>, type |-> TextPlain, hrefs |-> <<>>, text |-> <<"w3">>]
        ELSE IF host = <<"t">> /\ res = <<"/", "x">> THEN
            [code |-> "ok", retry_after |-> <<>>, type |-> TextHtml, hrefs |-> <<>>, text |-> <<"w1">>]
        ELSE NoPage

\* outcomes of one HTTP GET as fetch_url classifies them
Outcomes == {"ok", "retry", "nonretry", "bad200"}

\* what http_get hands to fetch_url: the page on a good 200, else only the
\* class of the response (a timeout or connection error counts as "retry")
Response(outcome, url, retry_after) ==
    IF outcome = "ok" THEN SitePage(url)
    ELSE [NoPage EXCEPT !.code = IF outcome = "retry" THEN "retry" ELSE "permanent",
                        !.retry_after = retry_after]

\* the outcomes that end the fetch at once with a PageException
PermanentOutcomes == {"nonretry", "bad200"}

\* the classes fetch_url tries again, with the permanent ones added
RetriableAll(outcome) == outcome = "retry" \/ outcome \in PermanentOutcomes

\* the classes fetch_url tries again: RETRY_CODES, Timeout, ConnectionError
Retriable(outcome) == outcome = "retry"

\* Retry-After of a response: absent, or a number of seconds
RetryAfterHeaders == { <<>>, <<1>> }

BaseDelay == 1

Backoff(ordinal) == BaseDelay * (2 ^ ordinal)

\* the longer of the backoff and Retry-After
next_wait_max(ordinal, retry_after) ==
    IF retry_after = <<>> THEN Backoff(ordinal)
    ELSE IF retry_after[1] > Backoff(ordinal) THEN retry_after[1] ELSE Backoff(ordinal)

\* next_wait of fetch_url when the turn ends in a retry code
next_wait(ordinal, retry_after) ==
    IF retry_after = <<>> THEN Backoff(ordinal) ELSE retry_after[1]

\* ------------------------------------------------------------------------
\* Link validity (crawler_cli.is_valid_link)
\* ------------------------------------------------------------------------
AllowedSuffixes == { <<".", "html">>, <<".", "htm">>, <<".", "txt">>, <<"/">> }

LastSegment(path) == SubSeq(path, LastIndex(path, "/") + 1, Len(path))

is_valid_link(href, domain) ==
    /\ href # <<>>
    /\ ~Contains(href, ":")
    /\ (UrlNetloc(href) # <<>> => EndsWith(UrlNetloc(href), domain))
    /\ \/ \E suf \in AllowedSuffixes : EndsWith(href, suf)
       \/ ~Contains(LastSegment(UrlPath(href)), ".")

\* the depth part of the guard of extract_links, off by one
DepthAllowsLinksInclusive(depth, max_depth) == depth <= max_depth

\* the depth part of the guard of extract_links
DepthAllowsLinks(depth, max_depth) == depth < max_depth

\* full_url of extract_links
FullUrl(url, href) == RStripSlash(SplitFragment(UrlJoin(url, href)))

\* the two tests of extract_links on an anchor, for a crawl started at start
LinkInScope(start, url, href) ==
    /\ is_valid_link(href, Domain(start))
    /\ StartsWith(FullUrl(url, href), ProDomain(start))

\* ------------------------------------------------------------------------
\* Word counting (word_counter.count_words) and counters
\* ------------------------------------------------------------------------
EmptyCounter == [w \in {} |-> 0]

Occurrences(text, w) == Cardinality({i \in 1..Len(text) : text[i] = w})

count_words(text) ==
    [w \in {text[i] : i \in 1..Len(text)} |-> Occurrences(text, w)]

CounterGet(c, w) == IF w \in DOMAIN c THEN c[w] ELSE 0

\* per-word additive merge: the upsert of update_word_counts
update_word_counts(tally, counter) ==
    [w \in (DOMAIN tally) \cup (DOMAIN counter) |->
        CounterGet(tally, w) + CounterGet(counter, w)]

\* ------------------------------------------------------------------------
\* Artifact files (crawler_cli.url_to_filepath, save_word_counts_json)
\* ------------------------------------------------------------------------
\* str.replace(old, new), old not empty
RECURSIVE Replace(_, _, _)
Replace(str, old, new) ==
    IF str = <<>> THEN <<>>
    ELSE IF StartsWith(str, old)
    THEN new \o Replace(SubSeq(str, Len(old) + 1, Len(str)), old, new)
    ELSE <<str[1]>> \o Replace(Tail(str), old, new)

content_type_to_ext(type) == IF type = TextHtml THEN <<".", "html">> ELSE <<".", "txt">>

\* os.path.splitext(url)[1] is not empty: the last component has a dot after
\* its first character. The host names of the model stand for dotted names
\* (s for s.example), so a url that ends with its host has an extension
HasExtension(url) ==
    IF UrlPath(url) = <<>> THEN TRUE
    ELSE LastIndex(LastSegment(url), ".") > 1

add_extension_if_missing(url, type) ==
    LET stripped == RStripSlash(url)
    IN  IF HasExtension(stripped) THEN stripped
        ELSE stripped \o content_type_to_ext(type)

url_to_filepath(url, type, prodomain) ==
    LET filename == Replace(add_extension_if_missing(url, type), prodomain, <<>>)
    IN  IF filename = <<>> THEN <<"index", ".", "html">> ELSE filename

\* the name save_word_counts_json writes to, under WORKDIR/words/
WordsFileName(filename) ==
    Replace(Replace(filename, <<".", "html">>, <<".", "json">>),
            <<".", "txt">>, <<".", "json">>)

\* save_word_counts_json: nothing is written for an empty counter, else the
\* file is created or overwritten
save_word_counts_json(fs, filename, word_counter) ==
    IF DOMAIN word_counter = {} THEN fs
    ELSE (WordsFileName(filename) :> word_counter) @@ fs

\* ------------------------------------------------------------------------
\* Ledger operations on the pages table (state.py)
\* ------------------------------------------------------------------------
HasUrl(pgs, url) == \E i \in 1..Len(pgs) : pgs[i].url = url

NewRow(pgs, url, depth, t) ==
    [sid |-> Len(pgs) + 1, url |-> url, depth |-> depth, status |-> "queued",
     attempts |-> 0, inserted_at |-> t, error |-> None]

\* INSERT without OR IGNORE and without the UNIQUE constraint
enqueue_url_no_ignore(pgs, url, depth, t) == Append(pgs, NewRow(pgs, url, depth, t))

\* INSERT OR REPLACE under UNIQUE(url)
enqueue_url_replace(pgs, url, depth, t) ==
    IF HasUrl(pgs, url)
    THEN [i \in 1..Len(pgs) |->
            IF pgs[i].url = url
            THEN [NewRow(pgs, url, depth, t) EXCEPT !.sid = pgs[i].sid]
            ELSE pgs[i]]
    ELSE Append(pgs, NewRow(pgs, url, depth, t))

\* INSERT OR IGNORE under UNIQUE(url)
enqueue_url(pgs, url, depth, t) ==
    IF HasUrl(pgs, url) THEN pgs ELSE Append(pgs, NewRow(pgs, url, depth, t))

mark_attempt(pgs, url) ==
    [i \in 1..Len(pgs) |->
        IF pgs[i].url = url THEN [pgs[i] EXCEPT !.attempts = @ + 1] ELSE pgs[i]]

decrease_attempt(pgs, url) ==
    [i \in 1..Len(pgs) |->
        IF pgs[i].url = url THEN [pgs[i] EXCEPT !.attempts = @ - 1] ELSE pgs[i]]

mark_success(pgs, url) ==
    [i \in 1..Len(pgs) |->
        IF pgs[i].url = url THEN [pgs[i] EXCEPT !.status = "visited"] ELSE pgs[i]]

\* a mark_failure that records the error and leaves the row queued
mark_failure_stays_queued(pgs, url, error) ==
    [i \in 1..Len(pgs) |->
        IF pgs[i].url = url THEN [pgs[i] EXCEPT !.error = error] ELSE pgs[i]]

mark_failure(pgs, url, error) ==
    [i \in 1..Len(pgs) |->
        IF pgs[i].url = url
        THEN [pgs[i] EXCEPT !.status = "failed", !.error = error]
        ELSE pgs[i]]

\* log_attempt: one more row in table attempts (no caller in the engine)
log_attempt(log, sid, url, depth, ordinal, status) ==
    Append(log, [sid |-> sid, url |-> url, depth |-> depth, attempt |-> ordinal,
                 status |-> status])

\* the first-ever enqueued (url, depth), for the log lines of crawler_loop
start_url(pgs) == IF pgs = <<>> THEN <<>> ELSE <<pgs[1].url, pgs[1].depth>>

\* ORDER BY depth DESC, attempts DESC, inserted_at
SortsBeforeDepthDesc(r, q) ==
    \/ r.depth > q.depth
    \/ r.depth = q.depth /\ r.attempts > q.attempts
    \/ r.depth = q.depth /\ r.attempts = q.attempts /\ r.inserted_at < q.inserted_at

\* ORDER BY depth, attempts, inserted_at
SortsBeforeAttemptsAsc(r, q) ==
    \/ r.depth < q.depth
    \/ r.depth = q.depth /\ r.attempts < q.attempts
    \/ r.depth = q.depth /\ r.attempts = q.attempts /\ r.inserted_at < q.inserted_at

\* ORDER BY depth, attempts DESC, inserted_at: r sorts strictly before q
SortsBefore(r, q) ==
    \/ r.depth < q.depth
    \/ r.depth = q.depth /\ r.attempts > q.attempts
    \/ r.depth = q.depth /\ r.attempts = q.attempts /\ r.inserted_at < q.inserted_at

\* every row of Page, whatever its status
PeekCandidatesAnyStatus(pgs) == {pgs[i] : i \in 1..Len(pgs)}

\* the rows peek_url selects from: WHERE status = 'queued'
PeekCandidates(pgs) == {r \in {pgs[i] : i \in 1..Len(pgs)} : r.status = "queued"}

\* the rows LIMIT 1 may return: SQLite leaves the order of ties open
peek_url(pgs) ==
    {r \in PeekCandidates(pgs) : \A q \in PeekCandidates(pgs) : ~SortsBefore(q, r)}

\* ------------------------------------------------------------------------
\* State
\* ------------------------------------------------------------------------
VARIABLES
    config,     \* config.json of the workdir: whether it exists, its url and max_depth
    pages,      \* table pages of state.db, in sid order
    words,      \* table words of state.db: word -> count
    clock,      \* the second now() showed to the last row written
    runs,       \* engine processes started so far on the workdir
    cfg,        \* START_URL, MAX_DEPTH, MAX_ATTEMPTS of the running engine, and
                \* args as typed, which nothing reads once the crawl loop is entered
    exited,     \* how the last engine ended: "complete", "fault", "killed", "stopped"
    pc,         \* position of the running engine, "off" when none runs
    row,        \* the row peek_url returned
    attempt,    \* loop variable of fetch_url
    resp,       \* the response http_get returned last, with its class
    li,         \* index of the next anchor in extract_links
    err,        \* message of the PageException being handled
    pending,    \* uncommitted writes of the open transaction
    stop,       \* crawler_cli.stop, the flag the UI sets to end the crawl loop
    pause,      \* crawler_cli.pause, the flag the UI toggles
    wait,       \* seconds fetch_url sleeps before its next turn, 0 when none
    attempt_log,\* table attempts of state.db
    last_depth, \* depth of the row peek_url returned last, over all runs
    lpc,        \* work lock: position of each process
    lfd,        \* work lock: inode each process has open, 0 when none
    lockIno,    \* work lock: inode the path WORKDIR/lock names, 0 when absent
    inodes,     \* work lock: inodes created so far
    held,       \* work lock: inodes under an exclusive flock
    purges,     \* work lock: purges done so far
    lhist,      \* work lock: how each process left, whether it opened the ledger
    lpath,      \* work lock: per process, WORKDIR, cfg.LOCK_FILE, the default of
                \* LockFile.__init__ and the lock_file of its LockFile object
    files,      \* the folder words/ of the workdir: file name -> the counter written
                \* (followed in SpecFiles only)
    gets,       \* url -> calls of http_get for it that came to an end, over all
                \* runs (followed in SpecAttempts only)
    store       \* the folders pages/ and text/ of the workdir: the files written,
                \* each with the URL it was written for (followed in SpecStore
                \* only)

ledgerVars == <<config, pages, words, clock, runs, cfg, exited, pc, row, attempt, resp, li, err, pending,
                stop, pause, wait, attempt_log, last_depth, files, gets, store>>

lockVars == <<lpc, lfd, lockIno, inodes, held, purges, lhist, lpath>>

restVars == <<lpc, lfd, lockIno, inodes, held, purges, lhist, lpath, stop, pause, wait, attempt_log, last_depth, files, gets, store>>

vars == <<config, pages, words, clock, runs, cfg, exited, pc, row, attempt, resp, li, err, pending,
          stop, pause, wait, attempt_log, last_depth,
          lpc, lfd, lockIno, inodes, held, purges, lhist, lpath, files, gets, store>>

NoRow == [sid |-> 0, url |-> <<>>, depth |-> 0, attempts |-> 0]

NoPending == [open |-> FALSE, words |-> EmptyCounter, visited |-> FALSE]

\* an empty folder
NoFiles == [f \in {} |-> EmptyCounter]

\* no call of http_get has come to an end
NoGets == [u \in {} |-> 0]

LockProcs == 1..MaxLockProcs

\* a process that has not left and has not opened state.db
NoHist == [left |-> None, ledger |-> FALSE]

\* Python's None where a path is expected
NoPath == <<>>

\* config.py as imported: WORKDIR and LOCK_FILE are None; lockfile.py not yet
\* imported, no LockFile object built
NoLockPath == [WORKDIR |-> NoPath, LOCK_FILE |-> NoPath, default |-> NoPath, lock_file |-> NoPath]

LockInit ==
    /\ lpc = [p \in LockProcs |-> "idle"]
    /\ lfd = [p \in LockProcs |-> 0]
    /\ lockIno = 0
    /\ inodes = 0
    /\ held = {}
    /\ purges = 0
    /\ lhist = [p \in LockProcs |-> NoHist]
    /\ lpath = [p \in LockProcs |-> NoLockPath]

Init ==
    /\ config = NoConfigFile
    /\ pages = <<>>
    /\ words = EmptyCounter
    /\ clock = 0
    /\ runs = 0
    /\ cfg = NoCfg
    /\ exited = None
    /\ pc = "off"
    /\ row = NoRow
    /\ attempt = 0
    /\ resp = NoPage
    /\ li = 0
    /\ err = None
    /\ pending = NoPending
    /\ stop = FALSE
    /\ pause = FALSE
    /\ wait = 0
    /\ attempt_log = <<>>
    /\ last_depth = 0
    /\ files = NoFiles
    /\ gets = NoGets
    /\ store = {}
    /\ LockInit

\* the locals of a process that is gone
EngineGone(how) ==
    /\ exited' = how
    /\ cfg' = NoCfg
    /\ pc' = "off"
    /\ row' = NoRow
    /\ attempt' = 0
    /\ resp' = NoPage
    /\ li' = 0
    /\ err' = None
    /\ pending' = NoPending
    /\ stop' = FALSE
    /\ pause' = FALSE
    /\ wait' = 0

\* the seconds now() may show to an INSERT of url: time does not run
\* backwards, and the reading matters only to a row that gets written
InsertTimes(url) == IF HasUrl(pages, url) THEN {clock} ELSE clock..MaxClock

\* ------------------------------------------------------------------------
\* The engine: python crawler_cli.py url workdir [-d N] [-a N]
\* (stop and pause stay False in this mode: only the UI sets them)
\* ------------------------------------------------------------------------
ErrMaxAttempts == "Max attempts reached"
ErrPermanent == "Non-Retryable HTTP error or Reading error"
ErrParsing == "page parsing error"

\* argparse_and_init: the command line, config.json written on the first run
\* and read back on every later one
Launch(url, d, a) ==
    /\ pc = "off"
    /\ runs' = runs + 1
    /\ config' = IF config.exists
                 THEN config
                 ELSE [exists |-> TRUE, url |-> url, max_depth |-> d]
    /\ cfg' = EffectiveCfg(config, url, d, a)
    /\ exited' = None
    /\ pc' = "main"
    /\ UNCHANGED <<pages, words, clock, row, attempt, resp, li, err, pending>>
    /\ UNCHANGED restVars

\* an engine process started from the command line
Start(url, d, a) ==
    /\ runs < MaxRuns
    /\ Launch(url, d, a)

\* main and the head of crawler_loop: the lock, the ledger opened, the start
\* URL enqueued when the ledger is empty
EnterLoop ==
    /\ pc = "main"
    /\ IF Len(pages) = 0
       THEN \E t \in InsertTimes(cfg.START_URL) :
               /\ clock' = t
               /\ pages' = enqueue_url(pages, cfg.START_URL, 0, t)
       ELSE UNCHANGED <<pages, clock>>
    /\ Len(start_url(pages')) = 2
    /\ cfg' = [cfg EXCEPT !.arg_url = <<>>, !.arg_max_depth = 0, !.arg_max_attempts = 0]
    /\ pc' = "loop"
    /\ UNCHANGED <<config, words, runs, exited, row, attempt, resp, li, err, pending>>
    /\ UNCHANGED restVars

\* while not stop: the test at the head of every turn of the crawl loop
LoopTest ==
    /\ pc = "loop"
    /\ IF stop
       THEN /\ EngineGone("stopped")
       ELSE /\ pc' = "top"
            /\ UNCHANGED <<cfg, exited, row, attempt, resp, li, err, pending, stop, pause, wait>>
    /\ UNCHANGED <<config, pages, words, clock, runs>>
    /\ UNCHANGED <<lockVars, files, gets, store, attempt_log, last_depth>>

\* a pause poll that never finds the flag set
PauseTestNever == FALSE

\* while pause: the test of the flag ahead of peek_url
PauseTest == pause

\* peek_url finds no queued row: crawl completed, the engine returns
PeekNone ==
    /\ pc \in {"top", "polled"}
    /\ ~PauseTest
    /\ peek_url(pages) = {}
    /\ Len(start_url(pages)) = 2
    /\ EngineGone("complete")
    /\ UNCHANGED <<config, pages, words, clock, runs>>
    /\ UNCHANGED <<lockVars, files, gets, store, attempt_log, last_depth>>

\* peek_url returns a row; fetch_url starts its loop at attempts + 1
PeekRow ==
    /\ pc \in {"top", "polled"}
    /\ ~PauseTest
    /\ \E r \in peek_url(pages) :
        /\ row' = [sid |-> r.sid, url |-> r.url, depth |-> r.depth, attempts |-> r.attempts]
        /\ attempt' = r.attempts + 1
        /\ last_depth' = r.depth
    /\ pc' = "fetch"
    /\ UNCHANGED <<config, pages, words, clock, runs, cfg, exited, resp, li, err, pending>>
    /\ UNCHANGED <<lockVars, files, gets, store, stop, pause, wait, attempt_log>>

\* fetch_url, one turn of the for loop up to mark_attempt; a loop that has no
\* turn left falls through to the raise after it. The sleep is over and the
\* response of the turn before is read no more
FetchAttempt ==
    /\ pc = "fetch"
    /\ IF attempt <= FetchMaxAttempts
       THEN /\ pages' = mark_attempt(pages, row.url)
            /\ pc' = "get"
            /\ err' = err
       ELSE /\ pages' = pages
            /\ pc' = "fail"
            /\ err' = ErrMaxAttempts
    /\ resp' = NoPage
    /\ wait' = 0
    /\ UNCHANGED <<config, words, clock, runs, cfg, exited, row, attempt, li, pending>>
    /\ UNCHANGED <<lockVars, files, gets, store, stop, pause, attempt_log, last_depth>>

\* fetch_url, http_get and what follows it in the same turn; the sleep
\* before the next turn is over when that turn starts
HttpGet(outcome, retry_after) ==
    /\ pc = "get"
    /\ outcome = "ok" => SitePage(row.url) # NoPage
    /\ outcome # "retry" => retry_after = <<>>
    /\ resp' = Response(outcome, row.url, retry_after)
    /\ IF outcome = "ok"
       THEN /\ pc' = "extract"
            /\ UNCHANGED <<attempt, err, wait>>
       ELSE IF Retriable(outcome)
       THEN IF attempt < FetchMaxAttempts
            THEN /\ attempt' = attempt + 1
                 /\ wait' = next_wait(attempt, retry_after)
                 /\ pc' = "fetch"
                 /\ err' = err
            ELSE /\ err' = ErrMaxAttempts
                 /\ pc' = "fail"
                 /\ UNCHANGED <<attempt, wait>>
       ELSE /\ err' = ErrPermanent
            /\ pc' = "fail"
            /\ UNCHANGED <<attempt, wait>>
    /\ UNCHANGED <<config, pages, words, clock, runs, cfg, exited, row, li, pending>>
    /\ UNCHANGED <<lockVars, files, gets, store, stop, pause, attempt_log, last_depth>>

\* extract_links: the parsing error drawn at random (or a real one)
ExtractError ==
    /\ pc = "extract"
    /\ err' = ErrParsing
    /\ pc' = "fail"
    /\ UNCHANGED <<config, pages, words, clock, runs, cfg, exited, row, attempt, resp, li, pending>>
    /\ UNCHANGED restVars

\* whether extract_links enqueues anchor href of the page at url
Enqueues(url, href) == LinkInScope(cfg.START_URL, url, href)

\* the first anchor at or after position from that extract_links enqueues,
\* Len(hrefs)+1 if none: the anchors it passes over leave no trace
RECURSIVE NextAnchor(_, _, _)
NextAnchor(url, hrefs, from) ==
    IF from > Len(hrefs) THEN Len(hrefs) + 1
    ELSE IF Enqueues(url, hrefs[from]) THEN from
    ELSE NextAnchor(url, hrefs, from + 1)

\* extract_links: the guard on body, type and depth, and the anchors up to
\* the first one to enqueue
ExtractGuard ==
    /\ pc = "extract"
    /\ LET first == NextAnchor(row.url, resp.hrefs, 1)
       IN  IF resp.text # <<>> /\ resp.type = TextHtml
              /\ DepthAllowsLinks(row.depth, cfg.MAX_DEPTH)
              /\ first <= Len(resp.hrefs)
           THEN pc' = "links" /\ li' = first
           ELSE pc' = "save" /\ li' = li
    /\ UNCHANGED <<config, pages, words, clock, runs, cfg, exited, row, attempt, resp, err, pending>>
    /\ UNCHANGED restVars

\* extract_links: the enqueue of one anchor, and the anchors up to the next
\* one to enqueue
ExtractLink ==
    /\ pc = "links"
    /\ LET full_url == FullUrl(row.url, resp.hrefs[li])
           next     == NextAnchor(row.url, resp.hrefs, li + 1)
       IN  /\ \E t \in InsertTimes(full_url) :
                /\ clock' = t
                /\ pages' = enqueue_url(pages, full_url, row.depth + 1, t)
           /\ IF next <= Len(resp.hrefs)
              THEN li' = next /\ pc' = "links"
              ELSE li' = 0 /\ pc' = "save"
    /\ UNCHANGED <<config, words, runs, cfg, exited, row, attempt, resp, err, pending>>
    /\ UNCHANGED restVars

\* a file write raises OSError
SaveError ==
    /\ pc = "save"
    /\ pc' = "env"
    /\ UNCHANGED <<config, pages, words, clock, runs, cfg, exited, row, attempt, resp, li, err, pending>>
    /\ UNCHANGED restVars

\* the commit argument update_word_counts_mark_success passes on
CommitEachWriteYes == TRUE

CommitEachWrite == FALSE

\* url_to_filepath, save_file_raw, save_file_text, count_words and
\* save_word_counts_json went well; update_word_counts_mark_success: the
\* upserts of update_word_counts (the files written are followed by
\* TxWordsFiles, in SpecFiles)
TxWords ==
    /\ pc = "save"
    /\ LET merged == update_word_counts(words, count_words(resp.text))
       IN  IF CommitEachWrite
           THEN words' = merged /\ pending' = NoPending
           ELSE words' = words
                /\ pending' = [open |-> TRUE, words |-> merged, visited |-> FALSE]
    /\ pc' = "tx"
    /\ UNCHANGED <<config, pages, clock, runs, cfg, exited, row, attempt, resp, li, err>>
    /\ UNCHANGED restVars

\* update_word_counts_mark_success: mark_success and the commit that ends
\* the with block
TxCommit ==
    /\ pc = "tx"
    /\ words' = IF pending.open THEN pending.words ELSE words
    /\ pages' = mark_success(pages, row.url)
    /\ pending' = NoPending
    /\ pc' = "loop"
    /\ row' = NoRow
    /\ attempt' = 0
    /\ resp' = NoPage
    /\ UNCHANGED <<config, clock, runs, cfg, exited, li, err>>
    /\ UNCHANGED restVars

\* the commit raises: the with block rolls the transaction back
TxError ==
    /\ pc = "tx"
    /\ pending' = NoPending
    /\ pc' = "env"
    /\ UNCHANGED <<config, pages, words, clock, runs, cfg, exited, row, attempt, resp, li, err>>
    /\ UNCHANGED restVars

\* except RequestException: mark_failure, then the next turn of the loop
MarkFailure ==
    /\ pc = "fail"
    /\ pages' = mark_failure(pages, row.url, err)
    /\ pc' = "loop"
    /\ row' = NoRow
    /\ attempt' = 0
    /\ resp' = NoPage
    /\ err' = None
    /\ UNCHANGED <<config, words, clock, runs, cfg, exited, li, pending>>
    /\ UNCHANGED restVars

\* except Exception: decrease_attempt, then the engine returns
EnvFault ==
    /\ pc = "env"
    /\ pages' = decrease_attempt(pages, row.url)
    /\ EngineGone("fault")
    /\ UNCHANGED <<config, words, clock, runs>>
    /\ UNCHANGED <<lockVars, files, gets, store, attempt_log, last_depth>>

\* the process is killed: what was not committed is lost
Kill ==
    /\ pc # "off"
    /\ EngineGone("killed")
    /\ UNCHANGED <<config, pages, words, clock, runs>>
    /\ UNCHANGED <<lockVars, files, gets, store, attempt_log, last_depth>>

Next ==
    \/ \E url \in CliUrls, d \in DepthArgs, a \in AttemptArgs : Start(url, d, a)
    \/ EnterLoop
    \/ LoopTest
    \/ PeekNone
    \/ PeekRow
    \/ FetchAttempt
    \/ \E outcome \in Outcomes, retry_after \in RetryAfterHeaders : HttpGet(outcome, retry_after)
    \/ ExtractError
    \/ ExtractGuard
    \/ ExtractLink
    \/ SaveError
    \/ TxWords
    \/ TxCommit
    \/ TxError
    \/ MarkFailure
    \/ EnvFault
    \/ Kill

Spec == Init /\ [][Next]_vars

\* ------------------------------------------------------------------------
\* Resumed crawls of a site whose answer to a URL is fixed: the engine is
\* killed and started again, nothing else goes wrong (no parsing error is
\* drawn, no file or database write fails)
\* ------------------------------------------------------------------------
\* the answer of the fixed site: a.html is down for good, what the site
\* does not hold is a 404
FixedOutcome(url) ==
    IF SitePage(url) = NoPage THEN "nonretry"
    ELSE IF UrlPath(url) = <<"/", "a", ".", "html">> THEN "retry"
    ELSE "ok"

StartResume(url, d, a) ==
    /\ runs <= MaxResumes
    /\ Launch(url, d, a)

\* http_get answered by the fixed site
HttpGetFixed ==
    /\ pc = "get"
    /\ HttpGet(FixedOutcome(row.url), <<>>)

NextResume ==
    \/ \E url \in CliUrls, d \in DepthArgs, a \in AttemptArgs : StartResume(url, d, a)
    \/ EnterLoop
    \/ LoopTest
    \/ PeekNone
    \/ PeekRow
    \/ FetchAttempt
    \/ HttpGetFixed
    \/ ExtractGuard
    \/ ExtractLink
    \/ TxWords
    \/ TxCommit
    \/ MarkFailure
    \/ Kill

SpecResume == Init /\ [][NextResume]_vars

\* the ledger one run of the engine that nothing interrupts leaves behind
\* on the fixed site, computed with the operations of the engine
RECURSIVE MarkAttempts(_, _, _)
MarkAttempts(pgs, url, n) ==
    IF n = 0 THEN pgs ELSE MarkAttempts(mark_attempt(pgs, url), url, n - 1)

RECURSIVE EnqueueLinks(_, _, _, _, _, _)
EnqueueLinks(pgs, start, url, depth, hrefs, i) ==
    IF i > Len(hrefs) THEN pgs
    ELSE EnqueueLinks(IF LinkInScope(start, url, hrefs[i])
                      THEN enqueue_url(pgs, FullUrl(url, hrefs[i]), depth + 1, 0)
                      ELSE pgs,
                      start, url, depth, hrefs, i + 1)

RECURSIVE UninterruptedRun(_, _, _)
UninterruptedRun(pgs, start, max_depth) ==
    IF peek_url(pgs) = {} THEN pgs
    ELSE LET r    == CHOOSE q \in peek_url(pgs) : TRUE
             page == SitePage(r.url)
             o    == FixedOutcome(r.url)
         IN  IF o = "ok"
             THEN LET tried  == mark_attempt(pgs, r.url)
                      linked == IF page.text # <<>> /\ page.type = TextHtml
                                   /\ DepthAllowsLinks(r.depth, max_depth)
                                THEN EnqueueLinks(tried, start, r.url, r.depth, page.hrefs, 1)
                                ELSE tried
                  IN  UninterruptedRun(mark_success(linked, r.url), start, max_depth)
             ELSE IF Retriable(o)
             THEN UninterruptedRun(
                      mark_failure(MarkAttempts(pgs, r.url, FetchMaxAttempts), r.url, ErrMaxAttempts),
                      start, max_depth)
             ELSE UninterruptedRun(
                      mark_failure(mark_attempt(pgs, r.url), r.url, ErrPermanent),
                      start, max_depth)

\* the rows of a ledger as pairs of URL and status
UrlStatus(pgs) == {<<pgs[i].url, pgs[i].status>> : i \in 1..Len(pgs)}

\* ------------------------------------------------------------------------
\* The engine as the thread of crawler_ui.py: the buttons and the window
\* set stop and pause while crawler_loop runs
\* ------------------------------------------------------------------------
StartUI(url, d, a) ==
    /\ runs < MaxUiRuns
    /\ Launch(url, d, a)

\* while pause: time.sleep(1), the test found pause set: the thread sleeps
PauseSleep ==
    /\ pc \in {"top", "polled"}
    /\ PauseTest
    /\ pc' = "poll"
    /\ UNCHANGED <<config, pages, words, clock, runs, cfg, exited, row, attempt, resp, li, err, pending>>
    /\ UNCHANGED restVars

\* the sleep of the pause poll is over: back to the test of pause
PauseWake ==
    /\ pc = "poll"
    /\ pc' = "polled"
    /\ UNCHANGED <<config, pages, words, clock, runs, cfg, exited, row, attempt, resp, li, err, pending>>
    /\ UNCHANGED restVars

\* the Pause/Resume button; stop_follow disables it, and on_close keeps the
\* event loop busy until the thread is gone
toggle_pause ==
    /\ pc # "off"
    /\ ~stop
    /\ pause' = ~pause
    /\ UNCHANGED <<config, pages, words, clock, runs, cfg, exited, pc, row, attempt, resp, li, err, pending>>
    /\ UNCHANGED <<lockVars, files, gets, store, stop, wait, attempt_log, last_depth>>

\* the Stop button (stop_follow) or the window closed (on_close)
stop_follow ==
    /\ pc # "off"
    /\ ~stop
    /\ stop' = TRUE
    /\ UNCHANGED <<config, pages, words, clock, runs, cfg, exited, pc, row, attempt, resp, li, err, pending>>
    /\ UNCHANGED <<lockVars, files, gets, store, pause, wait, attempt_log, last_depth>>

\* a step of the crawler thread
ThreadStep ==
    \/ EnterLoop
    \/ LoopTest
    \/ PauseSleep
    \/ PauseWake
    \/ PeekNone
    \/ PeekRow
    \/ FetchAttempt
    \/ \E outcome \in Outcomes, retry_after \in RetryAfterHeaders : HttpGet(outcome, retry_after)
    \/ ExtractError
    \/ ExtractGuard
    \/ ExtractLink
    \/ SaveError
    \/ TxWords
    \/ TxCommit
    \/ TxError
    \/ MarkFailure
    \/ EnvFault

NextUI ==
    \/ \E url \in CliUrls, d \in DepthArgs, a \in AttemptArgs : StartUI(url, d, a)
    \/ EnterLoop
    \/ LoopTest
    \/ PauseSleep
    \/ PauseWake
    \/ PeekNone
    \/ PeekRow
    \/ FetchAttempt
    \/ \E outcome \in Outcomes, retry_after \in RetryAfterHeaders : HttpGet(outcome, retry_after)
    \/ ExtractError
    \/ ExtractGuard
    \/ ExtractLink
    \/ SaveError
    \/ TxWords
    \/ TxCommit
    \/ TxError
    \/ MarkFailure
    \/ EnvFault
    \/ toggle_pause
    \/ stop_follow

SpecUI == Init /\ [][NextUI]_vars

\* the crawler thread is scheduled: it is not held back forever while it has
\* a step to take; nothing obliges the user to press a button
SpecUILive == Init /\ [][NextUI]_vars /\ WF_vars(ThreadStep)

\* ------------------------------------------------------------------------
\* The work lock: engine processes starting and exiting on one workdir
\* (lock_file is taken to be WORKDIR/lock, config.py line 124)
\* ------------------------------------------------------------------------
\* argparse_and_init without -p: the workdir is kept
LockStart(p) ==
    /\ lpc[p] = "idle"
    /\ lpc' = [lpc EXCEPT ![p] = "parsed"]
    /\ lhist' = [lhist EXCEPT ![p] = NoHist]
    /\ UNCHANGED <<lfd, lockIno, inodes, held, purges>>
    /\ UNCHANGED <<ledgerVars, lpath>>

\* argparse_and_init with -p on an existing workdir: rmtree unlinks the lock
\* file; an inode stays alive for the processes that have it open
LockStartPurge(p) ==
    /\ lpc[p] = "idle"
    /\ lockIno # 0
    /\ purges < MaxPurges
    /\ purges' = purges + 1
    /\ lockIno' = 0
    /\ lpc' = [lpc EXCEPT ![p] = "parsed"]
    /\ lhist' = [lhist EXCEPT ![p] = NoHist]
    /\ UNCHANGED <<lfd, inodes, held>>
    /\ UNCHANGED <<ledgerVars, lpath>>

\* LockFile.__enter__: open(lock_file, "w") creates the file when absent
LockOpen(p) ==
    /\ lpc[p] = "parsed"
    /\ IF lockIno = 0
       THEN /\ inodes' = inodes + 1
            /\ lockIno' = inodes + 1
       ELSE UNCHANGED <<inodes, lockIno>>
    /\ lfd' = [lfd EXCEPT ![p] = lockIno']
    /\ lpc' = [lpc EXCEPT ![p] = "opened"]
    /\ UNCHANGED <<held, purges, lhist>>
    /\ UNCHANGED <<ledgerVars, lpath>>

\* LockFile.__enter__: flock(LOCK_EX | LOCK_NB) succeeds, crawler_loop starts
LockAcquire(p) ==
    /\ lpc[p] = "opened"
    /\ lfd[p] \notin held
    /\ held' = held \cup {lfd[p]}
    /\ lpc' = [lpc EXCEPT ![p] = "loop"]
    /\ lhist' = [lhist EXCEPT ![p].ledger = TRUE]
    /\ UNCHANGED <<lfd, lockIno, inodes, purges>>
    /\ UNCHANGED <<ledgerVars, lpath>>

\* flock raises BlockingIOError at once; main prints and exits
LockContended(p) ==
    /\ lpc[p] = "opened"
    /\ lfd[p] \in held
    /\ lfd' = [lfd EXCEPT ![p] = 0]
    /\ lpc' = [lpc EXCEPT ![p] = "idle"]
    /\ lhist' = [lhist EXCEPT ![p].left = "busy"]
    /\ UNCHANGED <<lockIno, inodes, held, purges>>
    /\ UNCHANGED <<ledgerVars, lpath>>

\* an __exit__ that closes nothing and leaves the lock where it is
LockExitKeepsLock(p) ==
    /\ lpc[p] = "loop"
    /\ lpc' = [lpc EXCEPT ![p] = "idle"]
    /\ lhist' = [lhist EXCEPT ![p].left = "returned"]
    /\ UNCHANGED <<lfd, held, lockIno, inodes, purges>>
    /\ UNCHANGED <<ledgerVars, lpath>>

\* crawler_loop returns; LockFile.__exit__: flock(LOCK_UN) and close
LockExit(p) ==
    /\ lpc[p] = "loop"
    /\ held' = held \ {lfd[p]}
    /\ lfd' = [lfd EXCEPT ![p] = 0]
    /\ lpc' = [lpc EXCEPT ![p] = "idle"]
    /\ lhist' = [lhist EXCEPT ![p].left = "returned"]
    /\ UNCHANGED <<lockIno, inodes, purges>>
    /\ UNCHANGED <<ledgerVars, lpath>>

\* the process is killed: the system closes its descriptors and with them
\* drops its lock
LockKill(p) ==
    /\ lpc[p] # "idle"
    /\ held' = IF lpc[p] \in {"loop", "ui_probe_locked"} THEN held \ {lfd[p]} ELSE held
    /\ lfd' = [lfd EXCEPT ![p] = 0]
    /\ lpc' = [lpc EXCEPT ![p] = "idle"]
    /\ lhist' = [lhist EXCEPT ![p].left = "killed"]
    /\ UNCHANGED <<lockIno, inodes, purges>>
    /\ UNCHANGED <<ledgerVars, lpath>>

NextLock ==
    \E p \in LockProcs :
        \/ LockStart(p)
        \/ LockStartPurge(p)
        \/ LockOpen(p)
        \/ LockAcquire(p)
        \/ LockContended(p)
        \/ LockExit(p)
        \/ LockKill(p)

SpecLock == Init /\ [][NextLock]_vars

\* ------------------------------------------------------------------------
\* Properties
\* ------------------------------------------------------------------------
InLoop == {p \in LockProcs : lpc[p] = "loop"}

\* C2: at most one engine process is inside the crawl loop at any time
C2_MutualExclusion == Cardinality(InLoop) <= 1

Rows == 1..Len(pages)

Terminal(r) == r.status \in {"visited", "failed"}

QueuedRows == {pages[i] : i \in {j \in Rows : pages[j].status = "queued"}}

AllWords == {"w1", "w2", "w3"}

\* word by word, the occurrences in the pages of the visited rows among the
\* first n rows
RECURSIVE VisitedTally(_)
VisitedTally(n) ==
    IF n = 0 THEN [w \in AllWords |-> 0]
    ELSE LET before == VisitedTally(n - 1)
             text   == SitePage(pages[n].url).text
         IN  IF pages[n].status = "visited"
             THEN [w \in AllWords |-> before[w] + Occurrences(text, w)]
             ELSE before

\* C1: in every committed state of the ledger (which is what an engine
\* restarted after a kill at any point reads) the global word tally is, word
\* by word, the sum of the word counts of exactly the visited URLs: no
\* visited URL is missing from it and no other URL is counted in it
C1_TallyMatchesVisited ==
    /\ DOMAIN words \subseteq AllWords
    /\ LET sum == VisitedTally(Len(pages))
       IN  \A w \in AllWords : CounterGet(words, w) = sum[w]

\* a second engine is about to commit a page's counts and its visited mark
\* on top of a tally an earlier engine left behind
C1_Witness ==
    /\ runs = 2
    /\ pc = "tx"
    /\ pending.open
    /\ pending.words # words
    /\ \E i \in Rows : pages[i].status = "visited"
    /\ \E i \in Rows : pages[i].status = "queued" /\ pages[i].attempts > 0

\* C3: no two Page rows share a url
C3_UniqueUrls ==
    \A i, j \in Rows : pages[i].url = pages[j].url => i = j

\* the root page is being extracted again by a second engine: its first link
\* has just been enqueued, and the ledger already held the rows of both of
\* its first two links
C3_Witness ==
    /\ runs = 2
    /\ pc = "links"
    /\ li = 2
    /\ row.depth = 0
    /\ Len(pages) >= 3
    /\ HasUrl(pages, FullUrl(row.url, resp.hrefs[1]))

\* a url no page of the site links to
ProbeUrl == <<"h", ":", "/", "/", "s", "/", "x">>

\* C4: enqueue of a url that already has a row leaves that row and every
\* other row as they were and adds none, whatever the row's status and
\* whatever depth is passed; enqueue of a new url twice equals once
C4_EnqueueIdempotent ==
    /\ \A i \in Rows : \A d \in {0, 2} :
          /\ enqueue_url(pages, pages[i].url, d, clock) = pages
          /\ enqueue_url(pages, pages[i].url, 2 - d, MaxClock) = pages
    /\ \A d \in {0, 2} :
          LET once == enqueue_url(pages, ProbeUrl, d, clock)
          IN  /\ Len(once) = Len(pages) + 1
              /\ enqueue_url(once, ProbeUrl, 2 - d, MaxClock) = once

\* a page of depth 1 has just enqueued its first link at depth 2 while the
\* row of that url, enqueued at depth 1 from the root, is already terminal
C4_Witness ==
    /\ pc = "links"
    /\ li = 2
    /\ row.depth = 1
    /\ \E i \in Rows :
          /\ pages[i].url = FullUrl(row.url, resp.hrefs[1])
          /\ Terminal(pages[i])
          /\ pages[i].depth = 1

\* C5: once a row is visited or failed its status and its attempts never
\* change again (and the row stays)
C5_TerminalAbsorbing ==
    [][\A i \in Rows :
          Terminal(pages[i]) =>
            /\ i <= Len(pages')
            /\ pages'[i].url = pages[i].url
            /\ pages'[i].status = pages[i].status
            /\ pages'[i].attempts = pages[i].attempts]_vars

\* with a visited and a failed row in the ledger a later engine is about to
\* give back the attempt of the row it was working on
C5_Witness ==
    /\ runs = 2
    /\ pc = "env"
    /\ \E i \in Rows : pages[i].status = "visited"
    /\ \E i \in Rows : pages[i].status = "failed" /\ pages[i].attempts > 0

\* C6: while an engine runs with ceiling MAX_ATTEMPTS, taken from -a, every
\* row has attempts <= MAX_ATTEMPTS
C6_AttemptsWithinConfigured ==
    pc # "off" => \A i \in Rows : pages[i].attempts <= cfg.MAX_ATTEMPTS

\* C7: a row is failed only because its fetch or processing hit a
\* non-retriable error, or because its attempts reached MAX_ATTEMPTS (read
\* as "at least MAX_ATTEMPTS", the weakest reading): no row fails on a
\* transient fault while an attempt is left
C7_FailedOnlyWhenExhausted ==
    pc # "off" =>
        \A i \in Rows :
            pages[i].status = "failed" =>
                \/ pages[i].error \in {ErrPermanent, ErrParsing}
                \/ pages[i].attempts >= cfg.MAX_ATTEMPTS

C10_PeekMinimalQueued ==
    [][/\ (pc = "top" /\ pc' = "fetch") =>
            /\ pages' = pages
            /\ \E r \in QueuedRows :
                  /\ row' = [sid |-> r.sid, url |-> r.url, depth |-> r.depth,
                             attempts |-> r.attempts]
                  /\ \A q \in QueuedRows :
                        /\ r.depth <= q.depth
                        /\ r.depth = q.depth => r.attempts >= q.attempts
                        /\ (r.depth = q.depth /\ r.attempts = q.attempts)
                              => r.inserted_at <= q.inserted_at
       /\ (pc = "top" /\ exited' = "complete") =>
            /\ pages' = pages
            /\ QueuedRows = {}
       /\ (pc = "top" /\ QueuedRows = {}) => pc' # "fetch"]_vars

\* peek has returned a row that was attempted before, ahead of a queued row
\* of the same depth that was inserted earlier in the table and never tried
C10_Witness ==
    /\ pc = "fetch"
    /\ row.attempts >= 1
    /\ \E r, q \in QueuedRows :
          /\ r.sid = row.sid
          /\ r.attempts = row.attempts
          /\ q.depth = r.depth
          /\ q.attempts < r.attempts
          /\ q.sid < r.sid
          /\ q.inserted_at <= r.inserted_at

\* C11: the crawl is breadth-first by level: the row peek returns is no
\* deeper than any queued row, no queued row is shallower than the row being
\* processed, and the depth of the row peek returns never falls below the
\* depth of the row it returned before, in this run or in an earlier one
C11_BreadthFirstByLevel ==
    /\ [](pc \in {"fetch", "get", "extract", "links", "save", "tx", "fail", "env"}
            => \A q \in QueuedRows : row.depth <= q.depth)
    /\ [][(pc = "top" /\ pc' = "fetch") =>
            /\ \A q \in QueuedRows : row'.depth <= q.depth
            /\ last_depth <= row'.depth]_vars

\* a resumed run fetches a row of depth 1 after every row of depth 0 reached
\* a terminal status, with another row of depth 1 still queued
C11_Witness ==
    /\ pc = "fetch"
    /\ runs = 2
    /\ row.depth = 1
    /\ \E i \in Rows : pages[i].depth = 0
    /\ \A i \in Rows : pages[i].depth = 0 => Terminal(pages[i])
    /\ \E q \in QueuedRows : q.depth = 1 /\ q.url # row.url

\* C12: on the fixed site, a crawl that was killed and started again any
\* number of times ends, when it completes, with the rows and the status per
\* row that one uninterrupted run leaves
C12_ResumedMatchesUninterrupted ==
    (pc = "off" /\ exited = "complete") =>
        UrlStatus(pages) =
            UrlStatus(UninterruptedRun(enqueue_url(<<>>, config.url, 0, 0),
                                       config.url, config.max_depth))

\* the anchors of the page at url that extract_links enqueues all have rows,
\* one of them a row other than the page itself
LinksEnqueued(url) ==
    LET hrefs == SitePage(url).hrefs
    IN  /\ \A i \in 1..Len(hrefs) :
              Enqueues(url, hrefs[i]) => HasUrl(pages, FullUrl(url, hrefs[i]))
        /\ \E i \in 1..Len(hrefs) :
              Enqueues(url, hrefs[i]) /\ FullUrl(url, hrefs[i]) # url

\* C13: a page whose fetch succeeded and whose links were enqueued before the
\* engine was killed ahead of commit_success is peeked again by the resumed
\* run and fetched again over HTTP, whatever the ordinal of the attempt that
\* had succeeded, and the repeated discovery adds no duplicate row. Stated
\* for the start page on the first resume: its links can have rows only
\* because its own fetch succeeded in the run that was killed.
C13_RefetchedAfterLateKill ==
    /\ [](\A i, j \in Rows : pages[i].url = pages[j].url => i = j)
    /\ [][(/\ pc = "fetch"
           /\ runs = 2
           /\ row.depth = 0
           /\ row.attempts >= 1
           /\ attempt = row.attempts + 1
           /\ LinksEnqueued(row.url))
          => pc' \in {"get", "off"}]_vars

\* C14: config.json holds the url and max depth of the command line of the
\* first run and is never rewritten; every engine works with the start URL,
\* the scope prefix and the max depth of config.json, whatever its own
\* command line says, and with the max attempts of its own command line
C14_ResumeUsesFirstRunConfig ==
    /\ []((pc = "main" /\ runs = 1) =>
            /\ config.url = cfg.arg_url
            /\ config.max_depth = cfg.arg_max_depth)
    /\ [](pc # "off" =>
            /\ config.exists
            /\ cfg.START_URL = config.url
            /\ ProDomain(cfg.START_URL) = ProDomain(config.url)
            /\ cfg.MAX_DEPTH = config.max_depth)
    /\ [](pc = "main" => cfg.MAX_ATTEMPTS = cfg.arg_max_attempts)
    /\ [][config.exists => config' = config]_vars

\* a second run is started with another url and another -d than the first
C14_Witness ==
    /\ pc = "main"
    /\ runs = 2
    /\ cfg.arg_url # config.url
    /\ cfg.arg_max_depth # config.max_depth
    /\ cfg.START_URL = config.url
    /\ cfg.MAX_DEPTH = config.max_depth

\* C15: after a transient fault on an attempt below the ceiling, fetch_url
\* sleeps the longer of Retry-After and BaseDelay * 2^ordinal before the next
\* attempt: a Retry-After below the backoff never shortens the wait
C15_WaitIsLongerOfBoth ==
    [][(pc = "get" /\ pc' = "fetch") =>
          /\ wait' = next_wait_max(attempt, resp'.retry_after)
          /\ wait' >= Backoff(attempt)]_vars

\* C16: a transient fault on the attempt whose ordinal is the ceiling
\* MAX_ATTEMPTS ends the fetch with "Max attempts reached"; a transient fault
\* leaves fetch_url only as that PageException, never as itself; the crawl
\* loop then marks the URL failed with that message and goes on with the
\* next turn
C16_ExhaustedTransientFails ==
    [][/\ (pc = "get" /\ resp'.code = "retry" /\ attempt >= cfg.MAX_ATTEMPTS) =>
            (pc' = "fail" /\ err' = ErrMaxAttempts)
       /\ (pc = "get" /\ resp'.code = "retry") =>
            \/ pc' = "fetch"
            \/ pc' = "fail" /\ err' = ErrMaxAttempts
       /\ (pc = "fail" /\ err = ErrMaxAttempts /\ pc' # "off") =>
            /\ pc' = "loop"
            /\ \E i \in Rows :
                  /\ pages'[i].url = row.url
                  /\ pages'[i].status = "failed"
                  /\ pages'[i].error = ErrMaxAttempts]_vars

\* C17: a permanent page fault during fetch (a status that is neither 200 nor
\* a retry code, or a 200 that is empty or of no supported type) ends the
\* fetch at once, whatever attempts remain: the attempt was charged once when
\* it began, nothing more is charged, and the crawl loop marks the URL failed
\* with attempts equal to the ordinal of that attempt
C17_PermanentFaultNotRetried ==
    [][/\ (pc = "fetch" /\ pc' = "get") =>
            \E i \in Rows :
                /\ pages[i].url = row.url
                /\ pages[i].attempts = attempt - 1
                /\ pages'[i].attempts = attempt
       /\ (pc = "get" /\ resp'.code = "permanent") =>
            /\ pc' = "fail"
            /\ err' = ErrPermanent
            /\ attempt' = attempt
            /\ pages' = pages
       /\ (pc = "fail" /\ resp.code = "permanent" /\ pc' # "off") =>
            /\ pc' = "loop"
            /\ \E i \in Rows :
                  /\ pages'[i].url = row.url
                  /\ pages'[i].status = "failed"
                  /\ pages'[i].attempts = attempt]_vars

\* a URL was marked failed on a permanent fault of its first attempt, with
\* -a 2 or more on the command line
C17_Witness ==
    /\ pc = "loop"
    /\ cfg.MAX_ATTEMPTS >= FetchMaxAttempts
    /\ \E i \in Rows :
          /\ pages[i].status = "failed"
          /\ pages[i].error = ErrPermanent
          /\ pages[i].attempts = 1

\* C18: every HTTP attempt appends exactly one row to table attempts, for
\* the URL and the ordinal of that attempt, and no row of the table is ever
\* changed or deleted
C18_OneAttemptRowPerHttpAttempt ==
    [][/\ (pc = "get" /\ pc' \in {"extract", "fetch", "fail"}) =>
            attempt_log' = log_attempt(attempt_log, row.sid, row.url, row.depth,
                                       attempt, resp'.code)
       /\ Len(attempt_log') >= Len(attempt_log)
       /\ SubSeq(attempt_log', 1, Len(attempt_log)) = attempt_log]_vars

\* C19: once stop is set, the crawler thread eventually leaves the crawl
\* loop (and with it the with block that holds the lock), whatever the value
\* of pause, also when stop is set while the thread waits in the pause poll
C19_StopLeadsToExit == (stop /\ pc # "off") ~> (pc = "off")

\* C20: stop is tested after the pause wait and before the peek: when stop is
\* set while the thread sleeps between two turns of the loop or waits in the
\* pause poll, the thread leaves without another peek and fetch
C20_NoPeekAfterStop ==
    [][/\ (stop /\ pc = "loop") => pc' = "off"
       /\ (stop /\ pc \in {"poll", "polled"}) => pc' # "fetch"]_vars

\* C21: an environment fault while a peeked URL is processed (a file write
\* or the commit fails) ends the engine with the URL neither visited nor
\* failed and its attempts one lower; the tally and the other rows are as
\* they were, and the URL is left queued with attempts below the ceiling
\* MAX_ATTEMPTS, so that a restarted engine fetches it again
C21_EnvFaultRollsBackAttempt ==
    [][(pc = "env" /\ pc' # "env" /\ exited' # "killed") =>
          /\ pc' = "off"
          /\ exited' = "fault"
          /\ words' = words
          /\ Len(pages') = Len(pages)
          /\ \A i \in Rows :
                IF pages[i].url = row.url
                THEN /\ pages'[i].status = "queued"
                     /\ pages'[i].attempts = pages[i].attempts - 1
                     /\ pages'[i].attempts < cfg.MAX_ATTEMPTS
                ELSE pages'[i] = pages[i]]_vars

\* ------------------------------------------------------------------------
\* Ledger write errors: one engine on the fixed site, a write to state.db
\* may raise sqlite3.Error (database locked, disk full)
\* ------------------------------------------------------------------------
MaxSingleRuns == 1

ErrLedger == "database is locked"

StartSingle(url, d, a) ==
    /\ runs < MaxSingleRuns
    /\ Launch(url, d, a)

\* fetch_url: mark_attempt raises inside the try of the turn, and the
\* except Exception of fetch_url wraps the error into a PageException. The
\* UPDATE is part of the connection's open transaction when it was the
\* commit that raised, and the next commit writes it: both outcomes
MarkAttemptError ==
    /\ pc = "fetch"
    /\ attempt <= FetchMaxAttempts
    /\ pages' \in {pages, mark_attempt(pages, row.url)}
    /\ err' = ErrLedger
    /\ pc' = "fail"
    /\ UNCHANGED <<config, words, clock, runs, cfg, exited, row, attempt, resp, li, pending>>
    /\ UNCHANGED restVars

\* extract_links: enqueue_url raises inside the try of extract_links, whose
\* except Exception wraps the error into a PageException; the INSERT is
\* lost, or written by the next commit
EnqueueError ==
    /\ pc = "links"
    /\ LET full_url == FullUrl(row.url, resp.hrefs[li])
       IN  \E t \in InsertTimes(full_url) :
              /\ clock' \in {clock, t}
              /\ pages' = IF clock' = t
                          THEN enqueue_url(pages, full_url, row.depth + 1, t)
                          ELSE pages
    /\ err' = ErrLedger
    /\ pc' = "fail"
    /\ li' = 0
    /\ UNCHANGED <<config, words, runs, cfg, exited, row, attempt, resp, pending>>
    /\ UNCHANGED restVars

NextLedger ==
    \/ \E url \in CliUrls, d \in DepthArgs, a \in AttemptArgs : StartSingle(url, d, a)
    \/ EnterLoop
    \/ LoopTest
    \/ PeekNone
    \/ PeekRow
    \/ FetchAttempt
    \/ MarkAttemptError
    \/ HttpGetFixed
    \/ ExtractGuard
    \/ ExtractLink
    \/ EnqueueError
    \/ TxWords
    \/ TxCommit
    \/ TxError
    \/ MarkFailure
    \/ EnvFault

SpecLedger == Init /\ [][NextLedger]_vars

\* C22: a ledger write error at any step (mark_attempt in the retry
\* controller, enqueue_url in link extraction, the commit of the success
\* transaction) is an environment fault: it is never handled as a page
\* failure, so no row is marked failed because of it
C22_LedgerErrorIsEnvFault ==
    \A i \in Rows : pages[i].status = "failed" => pages[i].error # ErrLedger

\* ------------------------------------------------------------------------
\* Error injection: one engine on the fixed site, started with or without
\* -e; no real write error happens
\* ------------------------------------------------------------------------
\* a random draw against the threshold it is compared with
BelowThreshold == "below"
AboveThreshold == "above"

\* random.random()
random_random == {BelowThreshold, AboveThreshold}

\* utils.simulated_probability: a draw with -e, 1 without
simulated_probability(INJECT_ERRORS) ==
    IF INJECT_ERRORS THEN random_random ELSE {AboveThreshold}

\* an engine process started from the command line, -e given or not
StartInject(url, d, a, e) ==
    /\ runs < MaxSingleRuns
    /\ pc = "off"
    /\ runs' = runs + 1
    /\ config' = IF config.exists
                 THEN config
                 ELSE [exists |-> TRUE, url |-> url, max_depth |-> d]
    /\ cfg' = EffectiveCfg(config, url, d, a) @@ [INJECT_ERRORS |-> e]
    /\ exited' = None
    /\ pc' = "main"
    /\ UNCHANGED <<pages, words, clock, row, attempt, resp, li, err, pending>>
    /\ UNCHANGED restVars

\* utils.http_get: a simulated exception or a fake response when the draw
\* is below the threshold, else the answer of the site
HttpGetInject ==
    /\ pc = "get"
    /\ \E p \in simulated_probability(cfg.INJECT_ERRORS), outcome \in Outcomes :
          /\ IF p = BelowThreshold
             THEN outcome \in {"retry", "nonretry"}
             ELSE outcome = FixedOutcome(row.url)
          /\ HttpGet(outcome, <<>>)

\* extract_links: random.random() < 0.05 raises the simulated parsing error
ExtractErrorDrawn ==
    /\ pc = "extract"
    /\ \E p \in random_random : p = BelowThreshold
    /\ ExtractError

\* utils.file_write: the simulated disk error
SaveErrorInject ==
    /\ pc = "save"
    /\ \E p \in simulated_probability(cfg.INJECT_ERRORS) : p = BelowThreshold
    /\ SaveError

NextInject ==
    \/ \E url \in CliUrls, d \in DepthArgs, a \in AttemptArgs, e \in BOOLEAN :
          StartInject(url, d, a, e)
    \/ EnterLoop
    \/ LoopTest
    \/ PeekNone
    \/ PeekRow
    \/ FetchAttempt
    \/ HttpGetInject
    \/ ExtractErrorDrawn
    \/ ExtractGuard
    \/ ExtractLink
    \/ SaveErrorInject
    \/ TxWords
    \/ TxCommit
    \/ MarkFailure
    \/ EnvFault

SpecInject == Init /\ [][NextInject]_vars

\* C23: with error injection off (no -e) no simulated fault occurs in
\* fetch, link extraction or file writes: the engine never handles a page
\* failure or an environment fault for a URL that the site answers with a
\* valid 200 page
C23_NoFaultWithoutInjection ==
    (pc \in {"fail", "env"} /\ ~cfg.INJECT_ERRORS) => FixedOutcome(row.url) # "ok"

\* the rows of the start page: those whose url is the start URL up to a
\* trailing slash
StartPageRows == {i \in Rows : RStripSlash(pages[i].url) = RStripSlash(pages[1].url)}

\* C24: whatever the start URL on the command line, with or without a
\* trailing slash, a link that points back to the start page is absorbed by
\* the idempotent enqueue and adds no row: the start page has one row, and
\* so is fetched successfully once only
C24_LinkToStartAddsNoRow == Cardinality(StartPageRows) <= 1

\* C25: the url of every row of pages is in normal form, without fragment
\* and without trailing slash: the row of the start URL as well as the rows
\* of discovered links
C25_RowUrlsNormalForm ==
    \A i \in Rows : /\ ~Contains(pages[i].url, "#")
                    /\ ~EndsWith(pages[i].url, <<"/">>)

\* ------------------------------------------------------------------------
\* The work lock with UI processes: python crawler_ui.py url workdir probes
\* the lock, opens the ledger to create its tables, and then starts the
\* engine thread, which takes the lock as the command-line engine does
\* ------------------------------------------------------------------------
\* crawler_ui.py as __main__: argparse_and_init (without -p)
UiStart(p) ==
    /\ lpc[p] = "idle"
    /\ lpc' = [lpc EXCEPT ![p] = "ui_parsed"]
    /\ lhist' = [lhist EXCEPT ![p] = NoHist]
    /\ UNCHANGED <<lfd, lockIno, inodes, held, purges>>
    /\ UNCHANGED <<ledgerVars, lpath>>

\* LockFile.is_locked: open(lock_file, "w") creates the file when absent
UiProbeOpen(p) ==
    /\ lpc[p] = "ui_parsed"
    /\ IF lockIno = 0
       THEN /\ inodes' = inodes + 1
            /\ lockIno' = inodes + 1
       ELSE UNCHANGED <<inodes, lockIno>>
    /\ lfd' = [lfd EXCEPT ![p] = lockIno']
    /\ lpc' = [lpc EXCEPT ![p] = "ui_probe_opened"]
    /\ UNCHANGED <<held, purges, lhist>>
    /\ UNCHANGED <<ledgerVars, lpath>>

\* LockFile.is_locked: flock(LOCK_EX | LOCK_NB) succeeds: the probe holds
\* the lock
UiProbeLock(p) ==
    /\ lpc[p] = "ui_probe_opened"
    /\ lfd[p] \notin held
    /\ held' = held \cup {lfd[p]}
    /\ lpc' = [lpc EXCEPT ![p] = "ui_probe_locked"]
    /\ UNCHANGED <<lfd, lockIno, inodes, purges, lhist>>
    /\ UNCHANGED <<ledgerVars, lpath>>

\* LockFile.is_locked: flock raises BlockingIOError, is_locked returns True;
\* crawler_ui prints and exits
UiProbeBusy(p) ==
    /\ lpc[p] = "ui_probe_opened"
    /\ lfd[p] \in held
    /\ lfd' = [lfd EXCEPT ![p] = 0]
    /\ lpc' = [lpc EXCEPT ![p] = "idle"]
    /\ lhist' = [lhist EXCEPT ![p].left = "busy"]
    /\ UNCHANGED <<lockIno, inodes, held, purges>>
    /\ UNCHANGED <<ledgerVars, lpath>>

\* LockFile.is_locked: flock(LOCK_UN), the file closed, False returned
UiProbeUnlock(p) ==
    /\ lpc[p] = "ui_probe_locked"
    /\ held' = held \ {lfd[p]}
    /\ lfd' = [lfd EXCEPT ![p] = 0]
    /\ lpc' = [lpc EXCEPT ![p] = "ui_probed"]
    /\ UNCHANGED <<lockIno, inodes, purges, lhist>>
    /\ UNCHANGED <<ledgerVars, lpath>>

\* with state.CrawlerState(): the connection opened, journal_mode set, the
\* tables and indexes created and committed
UiLedgerOpen(p) ==
    /\ lpc[p] = "ui_probed"
    /\ lpc' = [lpc EXCEPT ![p] = "ui_ledger"]
    /\ lhist' = [lhist EXCEPT ![p].ledger = TRUE]
    /\ UNCHANGED <<lfd, lockIno, inodes, held, purges>>
    /\ UNCHANGED <<ledgerVars, lpath>>

\* the with block left, the window built, the thread started on
\* crawler_cli.main
UiThreadStart(p) ==
    /\ lpc[p] = "ui_ledger"
    /\ lpc' = [lpc EXCEPT ![p] = "parsed"]
    /\ UNCHANGED <<lfd, lockIno, inodes, held, purges, lhist>>
    /\ UNCHANGED <<ledgerVars, lpath>>

NextLockUI ==
    \E p \in LockProcs :
        \/ LockStart(p)
        \/ LockStartPurge(p)
        \/ LockOpen(p)
        \/ LockAcquire(p)
        \/ LockContended(p)
        \/ LockExit(p)
        \/ LockKill(p)
        \/ UiStart(p)
        \/ UiProbeOpen(p)
        \/ UiProbeLock(p)
        \/ UiProbeBusy(p)
        \/ UiProbeUnlock(p)
        \/ UiLedgerOpen(p)
        \/ UiThreadStart(p)

SpecLockUI == Init /\ [][NextLockUI]_vars

\* process p holds an exclusive flock on the lock file it has open
HoldsLock(p) == lpc[p] \in {"loop", "ui_probe_locked"} /\ lfd[p] \in held

\* C26: a process whose lock acquisition fails reports "already running"
\* and exits having performed no ledger operation (no connection, no table
\* creation, no write), and every ledger operation of a process happens
\* while that process holds the work lock
C26_LedgerOnlyUnderLock ==
    \A p \in LockProcs :
        /\ lhist[p].left = "busy" => ~lhist[p].ledger
        /\ lpc[p] \in {"loop", "ui_ledger"} => HoldsLock(p)

\* C27: the probe is non-destructive: a probe that runs while an engine
\* takes the lock never makes that acquisition fail, so the flock of an
\* engine is refused only when an engine holds the lock
C27_ProbeNeverBlocksEngine ==
    \A q \in LockProcs :
        (lpc[q] = "opened" /\ lfd[q] \in held) =>
            \E r \in LockProcs : lpc[r] = "loop" /\ lfd[r] = lfd[q]

\* C30: the work lock is released on every exit path (return, exit,
\* exception, kill): a process that has left has no descriptor open, and
\* every lock held is held by a process that is still running, so that an
\* engine started after the holder has left finds the lock free
C30_LockReleasedOnExit ==
    /\ \A p \in LockProcs : lpc[p] = "idle" => lfd[p] = 0
    /\ \A i \in held : \E q \in LockProcs : HoldsLock(q) /\ lfd[q] = i

\* an engine has returned and an engine started later holds the lock on the
\* same file
C30_Witness ==
    \E p, q \in LockProcs :
        /\ p # q
        /\ lhist[p].left \in {"returned", "killed"}
        /\ lhist[p].ledger
        /\ lpc[p] = "idle"
        /\ lpc[q] = "loop"
        /\ inodes = 1

\* ------------------------------------------------------------------------
\* The word-count files: one engine on the fixed site, nothing goes wrong,
\* the folder words/ followed
\* ------------------------------------------------------------------------
\* the page is saved: url_to_filepath, save_file_raw, save_file_text,
\* count_words, save_word_counts_json, then the upserts of
\* update_word_counts
TxWordsFiles ==
    /\ pc = "save"
    /\ LET merged == update_word_counts(words, count_words(resp.text))
       IN  IF CommitEachWrite
           THEN words' = merged /\ pending' = NoPending
           ELSE words' = words
                /\ pending' = [open |-> TRUE, words |-> merged, visited |-> FALSE]
    /\ files' = save_word_counts_json(files,
                    url_to_filepath(row.url, resp.type, ProDomain(cfg.START_URL)),
                    count_words(resp.text))
    /\ pc' = "tx"
    /\ UNCHANGED <<config, pages, clock, runs, cfg, exited, row, attempt, resp, li, err>>
    /\ UNCHANGED <<lockVars, gets, store, stop, pause, wait, attempt_log, last_depth>>

NextFiles ==
    \/ \E url \in CliUrls, d \in DepthArgs, a \in AttemptArgs : StartSingle(url, d, a)
    \/ EnterLoop
    \/ LoopTest
    \/ PeekNone
    \/ PeekRow
    \/ FetchAttempt
    \/ HttpGetFixed
    \/ ExtractGuard
    \/ ExtractLink
    \/ TxWordsFiles
    \/ TxCommit
    \/ MarkFailure

SpecFiles == Init /\ [][NextFiles]_vars

\* glob(folder/**/*.json): the files whose name ends in .json and does not
\* begin with a dot
GlobJson(fs) ==
    {f \in DOMAIN fs : EndsWith(f, <<".", "json">>) /\ LastSegment(f)[1] # "."}

\* occurrences of word w summed over the files names of folder fs
RECURSIVE SumFiles(_, _, _)
SumFiles(fs, names, w) ==
    IF names = {} THEN 0
    ELSE LET f == CHOOSE n \in names : TRUE
         IN  CounterGet(fs[f], w) + SumFiles(fs, names \ {f}, w)

\* word_counter.sum_counters_folder
sum_counters_folder(fs) == [w \in AllWords |-> SumFiles(fs, GlobJson(fs), w)]

\* C28: whenever the engine is between two turns of the crawl loop or has
\* completed, the per-word sum of the word-count files under words/ equals
\* the global tally, whatever in-scope URLs the site serves
C28_FilesSumEqualsTally ==
    (pc = "loop" \/ exited = "complete") =>
        \A w \in AllWords : sum_counters_folder(files)[w] = CounterGet(words, w)

\* ------------------------------------------------------------------------
\* Termination: one engine from the command line (stop and pause stay
\* False), no kill, no write error; the engine is a running process, so
\* each of its steps is taken in the end (sleeps are finite)
\* ------------------------------------------------------------------------
\* the default of -a
DefaultMaxAttempts == 2

\* python crawler_cli.py url workdir [-d N]
StartDefault(url, d) ==
    /\ runs < MaxSingleRuns
    /\ Launch(url, d, DefaultMaxAttempts)

EngineStep ==
    \/ EnterLoop
    \/ LoopTest
    \/ PeekNone
    \/ PeekRow
    \/ FetchAttempt
    \/ \E outcome \in Outcomes, retry_after \in RetryAfterHeaders : HttpGet(outcome, retry_after)
    \/ ExtractError
    \/ ExtractGuard
    \/ ExtractLink
    \/ TxWords
    \/ TxCommit
    \/ MarkFailure

NextTerm ==
    \/ \E url \in CliUrls, d \in DepthArgs : StartDefault(url, d)
    \/ EnterLoop
    \/ LoopTest
    \/ PeekNone
    \/ PeekRow
    \/ FetchAttempt
    \/ \E outcome \in Outcomes, retry_after \in RetryAfterHeaders : HttpGet(outcome, retry_after)
    \/ ExtractError
    \/ ExtractGuard
    \/ ExtractLink
    \/ TxWords
    \/ TxCommit
    \/ MarkFailure

SpecTerm == Init /\ [][NextTerm]_vars /\ WF_vars(EngineStep)

\* C29: on a finite site, with stop and pause never set and no crash or
\* environment fault, the crawl loop in the end finds peek empty and returns
\* crawl complete, and at that moment no row is queued: every row is
\* visited or failed
C29_CrawlCompletes ==
    /\ (pc # "off") ~> (exited = "complete")
    /\ [](exited = "complete" => \A i \in Rows : pages[i].status \in {"visited", "failed"})

\* a crawl of several pages has completed with visited and failed rows
C29_Witness ==
    /\ exited = "complete"
    /\ Len(pages) >= 3
    /\ \E i \in Rows : pages[i].status = "visited"
    /\ \E i \in Rows : pages[i].status = "failed"

\* the exit status of the process for each way the engine leaves: a return
\* of crawler_loop lets main and the script run to their end (status 0),
\* exit() without argument after BlockingIOError is status 0 too; only a
\* kill ends the process with the status of the signal
ExitCode(how) ==
    IF how = "killed" THEN 137 ELSE 0

\* C31: the exit code of the engine is 0 exactly on normal completion or
\* clean stop, and non-zero on a fatal environment fault (and on lock
\* contention)
C31_ExitCodeTellsFault ==
    /\ exited \in {"complete", "stopped"} => ExitCode(exited) = 0
    /\ exited = "fault" => ExitCode(exited) # 0

\* ------------------------------------------------------------------------
\* The path of the lock file: engines started on the workdirs of their own
\* command lines (lockfile.py as imported by crawler_cli.py)
\* ------------------------------------------------------------------------
Workdirs == {"w1", "w2"}

\* config.py line 124: f'{WORKDIR}/lock'
LockPath(workdir) == <<workdir, "/", "lock">>

\* crawler_cli.py lines 24-25: the imports run before anything else; the def
\* statement of LockFile.__init__ evaluates its default, cfg.LOCK_FILE, once,
\* at this moment
PathImport(p) ==
    /\ lpc[p] = "idle"
    /\ lpc' = [lpc EXCEPT ![p] = "imported"]
    /\ lpath' = [lpath EXCEPT ![p] = [NoLockPath EXCEPT !.default = NoLockPath.LOCK_FILE]]
    /\ lhist' = [lhist EXCEPT ![p] = NoHist]
    /\ UNCHANGED <<lfd, lockIno, inodes, held, purges>>
    /\ UNCHANGED ledgerVars

\* argparse_and_init: WORKDIR from the command line, LOCK_FILE derived
PathParse(p, workdir) ==
    /\ lpc[p] = "imported"
    /\ lpc' = [lpc EXCEPT ![p] = "path_parsed"]
    /\ lpath' = [lpath EXCEPT ![p].WORKDIR = <<workdir>>, ![p].LOCK_FILE = LockPath(workdir)]
    /\ UNCHANGED <<lfd, lockIno, inodes, held, purges, lhist>>
    /\ UNCHANGED ledgerVars

\* main: LockFile() without an argument; __init__ stores the default
PathConstruct(p) ==
    /\ lpc[p] = "path_parsed"
    /\ lpc' = [lpc EXCEPT ![p] = "constructed"]
    /\ lpath' = [lpath EXCEPT ![p].lock_file = lpath[p].default]
    /\ UNCHANGED <<lfd, lockIno, inodes, held, purges, lhist>>
    /\ UNCHANGED ledgerVars

\* LockFile.__enter__ on a lock_file of None: open(None, "w") raises
\* TypeError, which main does not catch: the process ends with a traceback
PathEnterNone(p) ==
    /\ lpc[p] = "constructed"
    /\ lpath[p].lock_file = NoPath
    /\ lpc' = [lpc EXCEPT ![p] = "idle"]
    /\ lhist' = [lhist EXCEPT ![p].left = "TypeError"]
    /\ UNCHANGED <<lfd, lockIno, inodes, held, purges, lpath>>
    /\ UNCHANGED ledgerVars

NextLockPath ==
    \E p \in LockProcs :
        \/ PathImport(p)
        \/ \E workdir \in Workdirs : PathParse(p, workdir)
        \/ PathConstruct(p)
        \/ PathEnterNone(p)

SpecLockPath == Init /\ [][NextLockPath]_vars

\* C32: the file an engine locks is the lock file inside the workdir given on
\* its own command line: the lock_file of the LockFile object main builds is
\* WORKDIR/lock, so that engines on different workdirs lock different files
C32_LocksOwnWorkdirFile ==
    \A p \in LockProcs :
        lpc[p] = "constructed" => lpath[p].lock_file = lpath[p].LOCK_FILE

\* ------------------------------------------------------------------------
\* Attempts counted: the calls of http_get that came to an end, per URL,
\* over runs that end by completion, environment fault or kill
\* ------------------------------------------------------------------------
GetsOf(url) == IF url \in DOMAIN gets THEN gets[url] ELSE 0

StartCounted(url, d) ==
    /\ runs < MaxRuns
    /\ Launch(url, d, DefaultMaxAttempts)

\* fetch_url: http_get returns a response or raises, and what follows it in
\* the same turn
HttpGetCounted(outcome) ==
    /\ pc = "get"
    /\ gets' = (row.url :> (GetsOf(row.url) + 1)) @@ gets
    /\ outcome = "ok" => SitePage(row.url) # NoPage
    /\ resp' = Response(outcome, row.url, <<>>)
    /\ IF outcome = "ok"
       THEN /\ pc' = "extract"
            /\ UNCHANGED <<attempt, err, wait>>
       ELSE IF Retriable(outcome)
       THEN IF attempt < FetchMaxAttempts
            THEN /\ attempt' = attempt + 1
                 /\ wait' = next_wait(attempt, <<>>)
                 /\ pc' = "fetch"
                 /\ err' = err
            ELSE /\ err' = ErrMaxAttempts
                 /\ pc' = "fail"
                 /\ UNCHANGED <<attempt, wait>>
       ELSE /\ err' = ErrPermanent
            /\ pc' = "fail"
            /\ UNCHANGED <<attempt, wait>>
    /\ UNCHANGED <<config, pages, words, clock, runs, cfg, exited, row, li, pending>>
    /\ UNCHANGED <<lockVars, files, store, stop, pause, attempt_log, last_depth>>

NextAttempts ==
    \/ \E url \in CliUrls, d \in DepthArgs : StartCounted(url, d)
    \/ EnterLoop
    \/ LoopTest
    \/ PeekNone
    \/ PeekRow
    \/ FetchAttempt
    \/ \E outcome \in Outcomes : HttpGetCounted(outcome)
    \/ ExtractGuard
    \/ ExtractLink
    \/ SaveError
    \/ TxWords
    \/ TxCommit
    \/ MarkFailure
    \/ EnvFault
    \/ Kill

SpecAttempts == Init /\ [][NextAttempts]_vars

\* C33: between loop iterations, and after the engine has left (environment
\* fault and kill included), the attempts of every Page row equals the
\* number of HTTP attempts completed against its URL over all runs
C33_AttemptsCountCompletedGets ==
    pc \in {"off", "main", "loop"} =>
        \A i \in Rows : pages[i].attempts = GetsOf(pages[i].url)

\* C34: with no Retry-After header, after a transient fault on attempt k below
\* the ceiling MAX_ATTEMPTS fetch_url sleeps BaseDelay * 2^k seconds and goes
\* on with the next attempt; after a transient fault on the last permitted
\* attempt it raises without a sleep
C34_BackoffDoublesPerAttempt ==
    [][(pc = "get" /\ resp'.code = "retry" /\ resp'.retry_after = <<>>) =>
          IF attempt < cfg.MAX_ATTEMPTS
          THEN pc' = "fetch" /\ wait' = BaseDelay * (2 ^ attempt)
          ELSE pc' = "fail" /\ wait' = 0]_vars

\* ------------------------------------------------------------------------
\* The artifact store: engines on the fixed site, killed and started again,
\* file writes that may fail, the folders pages/ and text/ followed
\* ------------------------------------------------------------------------
\* the name save_file_text writes to, under WORKDIR/text/
TextFileName(filename) == Replace(filename, <<".", "html">>, <<".", "txt">>)

\* a save that writes no file
save_file_none(st, url, filename) == st

\* save_file_raw: the body of a fetched page is never empty
save_file_raw(st, url, filename) ==
    st \cup {[folder |-> "pages", name |-> filename, url |-> url]}

\* save_file_text
save_file_text(st, url, filename) ==
    st \cup {[folder |-> "text", name |-> TextFileName(filename), url |-> url]}

StartStore(url, d) ==
    /\ runs < MaxRuns
    /\ Launch(url, d, DefaultMaxAttempts)

\* the page is saved: url_to_filepath, save_file_raw, save_file_text,
\* count_words, save_word_counts_json, then the upserts of
\* update_word_counts
TxWordsStore ==
    /\ pc = "save"
    /\ LET merged   == update_word_counts(words, count_words(resp.text))
           filepath == url_to_filepath(row.url, resp.type, ProDomain(cfg.START_URL))
       IN  /\ IF CommitEachWrite
              THEN words' = merged /\ pending' = NoPending
              ELSE words' = words
                   /\ pending' = [open |-> TRUE, words |-> merged, visited |-> FALSE]
           /\ store' = save_file_text(save_file_raw(store, row.url, filepath), row.url, filepath)
           /\ files' = save_word_counts_json(files, filepath, count_words(resp.text))
    /\ pc' = "tx"
    /\ UNCHANGED <<config, pages, clock, runs, cfg, exited, row, attempt, resp, li, err>>
    /\ UNCHANGED <<lockVars, gets, stop, pause, wait, attempt_log, last_depth>>

\* save_file_raw went well, the write of save_file_text raises OSError
SaveTextError ==
    /\ pc = "save"
    /\ store' = save_file_raw(store, row.url,
                    url_to_filepath(row.url, resp.type, ProDomain(cfg.START_URL)))
    /\ pc' = "env"
    /\ UNCHANGED <<config, pages, words, clock, runs, cfg, exited, row, attempt, resp, li, err, pending>>
    /\ UNCHANGED <<lockVars, files, gets, stop, pause, wait, attempt_log, last_depth>>

NextStore ==
    \/ \E url \in CliUrls, d \in DepthArgs : StartStore(url, d)
    \/ EnterLoop
    \/ LoopTest
    \/ PeekNone
    \/ PeekRow
    \/ FetchAttempt
    \/ HttpGetFixed
    \/ ExtractGuard
    \/ ExtractLink
    \/ SaveError
    \/ SaveTextError
    \/ TxWordsStore
    \/ TxCommit
    \/ MarkFailure
    \/ EnvFault
    \/ Kill

SpecStore == Init /\ [][NextStore]_vars

\* the file of a folder written for url
HasArtifact(st, folder, url) == \E f \in st : f.folder = folder /\ f.url = url

\* every link of the page in hand that extract_links is to enqueue has a row
LinksOfRowEnqueued ==
    (resp.type = TextHtml /\ DepthAllowsLinks(row.depth, cfg.MAX_DEPTH)) =>
        \A k \in 1..Len(resp.hrefs) :
            Enqueues(row.url, resp.hrefs[k]) => HasUrl(pages, FullUrl(row.url, resp.hrefs[k]))

\* C35: for one URL the steps come in the order mark_attempt, HTTP GET, link
\* enqueues, artifact writes, commit: a file is written only for the row in
\* hand, after its attempt was charged, its GET answered with a good page
\* and its links were enqueued; a row becomes visited only with its raw and
\* text files written before; a URL whose fetch never succeeded has no file
C35_ArtifactsBeforeCommit ==
    [][/\ store' # store =>
            /\ \A f \in store' \ store : f.url = row.url
            /\ \E i \in Rows : pages[i].url = row.url /\ pages[i].attempts >= 1
            /\ resp.code = "ok" /\ resp = SitePage(row.url)
            /\ LinksOfRowEnqueued
            /\ \A i \in Rows : pages[i].url = row.url => pages[i].status = "queued"
       /\ \A i \in Rows :
            (pages'[i].status = "visited" /\ pages[i].status # "visited") =>
                /\ HasArtifact(store, "pages", pages[i].url)
                /\ HasArtifact(store, "text", pages[i].url)
       /\ \A f \in store' : FixedOutcome(f.url) = "ok"]_vars

\* a run has committed a page whose files are there and has marked failed a
\* URL that has none
C35_Witness ==
    /\ \E i \in Rows : /\ pages[i].status = "visited"
                       /\ HasArtifact(store, "pages", pages[i].url)
                       /\ HasArtifact(store, "text", pages[i].url)
    /\ \E i \in Rows : /\ pages[i].status = "failed"
                       /\ ~HasArtifact(store, "pages", pages[i].url)
                       /\ ~HasArtifact(store, "text", pages[i].url)

\* the engine has finished the turn in progress, or waits in the pause poll
BetweenTurns == pc \in {"loop", "top", "poll", "polled"}

\* C36: while pause is set, once the turn in progress is finished, the engine
\* peeks no row, fetches nothing and writes neither ledger nor artifacts: it
\* stays in the pause poll (or leaves on stop at the head of the loop); it
\* leaves the pause poll only with pause cleared, and then by the next peek
C36_PausedEngineIsIdle ==
    [][/\ (pause /\ BetweenTurns) =>
            /\ pages' = pages /\ words' = words /\ files' = files /\ store' = store
            /\ row' = row /\ attempt' = attempt /\ resp' = resp
            /\ \/ pc' \in {pc, "top", "poll", "polled"}
               \/ pc = "loop" /\ stop /\ pc' = "off" /\ exited' = "stopped"
       /\ (pc \in {"poll", "polled"} /\ pc' \notin {"poll", "polled"}) =>
            /\ ~pause
            /\ \/ pc' = "fetch" /\ row' \in {[sid |-> r.sid, url |-> r.url, depth |-> r.depth,
                                              attempts |-> r.attempts] : r \in peek_url(pages)}
               \/ pc' = "off" /\ exited' = "complete" /\ peek_url(pages) = {}]_vars

\* a page was committed, the thread has then waited in the pause poll with
\* a row still queued, the user has pressed Resume: the thread is about to
\* peek
C36_Witness ==
    /\ pc = "polled"
    /\ ~pause
    /\ ~stop
    /\ peek_url(pages) # {}
    /\ \E i \in Rows : pages[i].status = "visited"

\* ------------------------------------------------------------------------
\* Links of any form: one engine on a site whose pages are HTML with one
\* anchor each, the href drawn from relative, protocol-relative and
\* absolute forms
\* ------------------------------------------------------------------------
\* "/a.html", "x", "b.pdf", "//s/x", "//t/x", "h://s/b", "h://t/b"
Hrefs == { <<"/", "a", ".", "html">>,
           <<"x">>,
           <<"b", ".", "pdf">>,
           <<"/", "/", "s", "/", "x">>,
           <<"/", "/", "t", "/", "x">>,
           <<"h", ":", "/", "/", "s", "/", "b">>,
           <<"h", ":", "/", "/", "t", "/", "b">> }

\* fetch_url: http_get answers 200 with an HTML page that has one anchor
HttpGetAnchor(href) ==
    /\ pc = "get"
    /\ resp' = [code |-> "ok", retry_after |-> <<>>, type |-> TextHtml,
                hrefs |-> <<href>>, text |-> <<"w1">>]
    /\ pc' = "extract"
    /\ UNCHANGED <<config, pages, words, clock, runs, cfg, exited, row, attempt, li, err, pending>>
    /\ UNCHANGED restVars

NextLinks ==
    \/ \E url \in CliUrls, d \in DepthArgs : StartDefault(url, d)
    \/ EnterLoop
    \/ LoopTest
    \/ PeekNone
    \/ PeekRow
    \/ FetchAttempt
    \/ \E href \in Hrefs : HttpGetAnchor(href)
    \/ ExtractGuard
    \/ ExtractLink
    \/ TxWords
    \/ TxCommit

SpecLinks == Init /\ [][NextLinks]_vars

\* //host/x
IsProtocolRelative(href) == StartsWith(href, <<"/", "/">>)

\* scheme://host/x
IsAbsolute(href) == HasScheme(href)

\* C37: no href that is protocol-relative or absolute, same-origin or not,
\* is ever enqueued: extract_links adds a row only for a relative href
C37_OnlyRelativeHrefsEnqueued ==
    [][(pc = "links" /\ pages' # pages) =>
          /\ ~IsProtocolRelative(resp.hrefs[li])
          /\ ~IsAbsolute(resp.hrefs[li])]_vars

\* ------------------------------------------------------------------------
\* The error string of a failed URL: one engine, fetches that end in a
\* PageException whose message is drawn from messages of several lengths
\* (messages and the stored string are sequences of characters here)
\* ------------------------------------------------------------------------
\* [:100] in etos
TrimLen == 100

\* the longest message drawn
MaxMsgLen == 101

Whitespace == {" ", "\n"}

\* str.strip()
RECURSIVE LStrip(_)
LStrip(str) ==
    IF str # <<>> /\ str[1] \in Whitespace THEN LStrip(Tail(str)) ELSE str

RECURSIVE RStrip(_)
RStrip(str) ==
    IF str # <<>> /\ str[Len(str)] \in Whitespace
    THEN RStrip(SubSeq(str, 1, Len(str) - 1))
    ELSE str

Strip(str) == LStrip(RStrip(str))

\* str.split('\n')[0]
FirstLine(str) == SubSeq(str, 1, IndexFrom(str, "\n", 1) - 1)

\* str[:n]
Take(str, n) == SubSeq(str, 1, IF Len(str) < n THEN Len(str) ELSE n)

\* e.__class__.__name__ of the exception crawler_loop catches at its
\* except RequestException: fetch_url, extract_links and url_to_filepath
\* raise PageException only
PageExceptionName == <<"P", "a", "g", "e", "E", "x", "c", "e", "p", "t", "i", "o", "n">>

\* utils.etos: <class name>(<first line of the stripped message, 100 chars>)
etos(class_name, message) ==
    class_name \o <<"(">> \o Take(FirstLine(Strip(message)), TrimLen) \o <<")">>

\* a message of n characters
Chars(n) == [i \in 1..n |-> "x"]

\* messages of PageExceptions: short ones, one of two lines with blanks
\* around, and ones about as long as the trim length
FaultMessages ==
    {Chars(n) : n \in (0..2) \cup ((TrimLen - 1)..MaxMsgLen)}
        \cup { <<" ", "a", "b", "\n", "c", " ">> }

\* fetch_url: http_get returns the good page of the site
HttpGetGood ==
    /\ pc = "get"
    /\ HttpGet("ok", <<>>)

\* fetch_url raises PageException(message): a status that is no retry code,
\* an unsupported Content-Type, or any other exception of the turn
HttpGetFault(message) ==
    /\ pc = "get"
    /\ resp' = Response("nonretry", row.url, <<>>)
    /\ err' = message
    /\ pc' = "fail"
    /\ UNCHANGED <<config, pages, words, clock, runs, cfg, exited, row, attempt, li, pending>>
    /\ UNCHANGED restVars

\* except RequestException as e: state.mark_failure(url, utils.etos(e))
MarkFailureEtos ==
    /\ pc = "fail"
    /\ pages' = mark_failure(pages, row.url, etos(PageExceptionName, err))
    /\ pc' = "loop"
    /\ row' = NoRow
    /\ attempt' = 0
    /\ resp' = NoPage
    /\ err' = None
    /\ UNCHANGED <<config, words, clock, runs, cfg, exited, li, pending>>
    /\ UNCHANGED restVars

NextEtos ==
    \/ \E url \in CliUrls, d \in DepthArgs : StartDefault(url, d)
    \/ EnterLoop
    \/ LoopTest
    \/ PeekNone
    \/ PeekRow
    \/ FetchAttempt
    \/ HttpGetGood
    \/ \E message \in FaultMessages : HttpGetFault(message)
    \/ ExtractGuard
    \/ ExtractLink
    \/ TxWords
    \/ TxCommit
    \/ MarkFailureEtos

SpecEtos == Init /\ [][NextEtos]_vars

\* C38: the error string stored in the ledger for a failed URL is at most
\* 100 characters long, whatever the length of the fault message
C38_ErrorAtMostHundredChars ==
    \A i \in Rows : pages[i].status = "failed" => Len(pages[i].error) <= TrimLen

\* C39: a process started with -p on a workdir in which an engine is running
\* never deletes the lock file of that engine (nor, with it, its ledger) and
\* never runs as a second engine beside it: the file a running engine holds
\* locked is still the file WORKDIR/lock, and one engine runs at most
C39_PurgeSparesRunningEngine ==
    /\ \A p \in LockProcs : lpc[p] = "loop" => lfd[p] = lockIno
    /\ \A p, q \in LockProcs : (lpc[p] = "loop" /\ lpc[q] = "loop") => p = q

====
